---- MODULE Spec2Model ----
(***************************************************************************)
(* Gold/silver dashboard backend: the pipeline orchestrator                *)
(* (coordinator/agent_coordinator.py), its three agents (agents/*.py), the *)
(* application lifespan (main.py) and the on-demand triggers               *)
(* (api/routes.py), as asyncio tasks on one event-loop thread.             *)
(*                                                                         *)
(* A task gives up the thread only at an await that really suspends: the   *)
(* httpx calls of collect_prices and asyncio.sleep.  Everything else       *)
(* (SQLAlchemy calls, numpy, model.generate_content) is a blocking call,   *)
(* so the task keeps the thread; `running` is the task holding it.         *)
(***************************************************************************)
EXTENDS Integers, Sequences, FiniteSets, TLC

\* ---------------------------------------------------------------- bounds
\* cycles the scheduling loop starts in one behaviour
MaxLoopCycles == 2
\* on-demand triggers (POST /collect, GET /debug/collect) in one behaviour
MaxTriggers == 1
\* failures of the environment (a price source, the database, the
\* summarizer) in one behaviour
MaxFaults == 2
\* the refresh interval (settings.refresh_interval seconds) in clock ticks
RefreshTicks == 2

\* ----------------------------------------------------------------- tasks
\* run_initial_collection, start_scheduled_collection, and the handler of an
\* on-demand trigger
Tasks == {"initial", "loop", "request"}
\* trigger_collection (POST /collect) and debug_collect (GET /debug/collect)
Endpoints == {"post", "debug"}
NoTask == "NoTask"

\* positions of a task
\*   none       no such task (no request in flight)
\*   created    asyncio.create_task done, coroutine not yet started
\*   fetch_intl suspended in await fetch_international_prices()
\*   fetch_bot  suspended in await fetch_bot_gold_price()
\*   save       collect_prices resumed; validate_data/save_to_database next
\*   analyze    execute_pipeline Step 2 next
\*   summarize  execute_pipeline Step 3 next
\*   return     execute_pipeline about to return result
\*   sleeping   suspended in await asyncio.sleep(refresh_interval)
\*   done       coroutine returned
\*   cancelled  CancelledError left the coroutine
FetchStages == {"fetch_intl", "fetch_bot"}
SyncStages == {"save", "analyze", "summarize", "return"}
CycleStages == FetchStages \cup SyncStages

\* error messages appended to result["errors"]
ErrCollect == "collect_failed"      \* "數據採集失敗"
ErrAnalysis == "analysis_failed"    \* "數據分析失敗"
ErrAI == "ai_failed"                \* "AI分析失敗"
ErrException == "pipeline_exception" \* "流水線執行異常: ..."

\* what a callee hands back besides a value
Raise == "Raise"
None == "None"
NoAnalysis == [kind |-> None, statistics |-> {}, trend |-> {}]
NoSummary == [kind |-> None, sections |-> {}]
\* DataAnalyzerAgent.run not called yet
NotAnalyzed == [called |-> FALSE]
\* _parse_analysis_sections not called yet
NotParsed == [parsed |-> FALSE]

VARIABLES
    app,                 \* lifespan: "init", "serving", "stopping", "stopped"
    pc,                  \* position of every task
    running,             \* the task holding the event-loop thread, or NoTask
    is_running,          \* coordinator.is_running
    cancel_requested,    \* background_task.cancel() called, not yet delivered
    model,               \* ai_analyzer.model: None or "gemini"
    prices,              \* collect_prices local: prices dict filled or not
    price_data,          \* execute_pipeline local price_data
    timestamp,           \* price_data["timestamp"] of each task's cycle
    analysis_result,     \* execute_pipeline local analysis_result
    ai_result,           \* execute_pipeline local ai_result
    result,              \* execute_pipeline result dict
    trace,               \* stage events of each task's current cycle
    persisted,           \* records each task's current cycle has inserted
    price_records,       \* table price_records, rows in insertion order
    statistics_records,  \* table statistics_records
    ai_analysis_records, \* table ai_analysis_records
    slept,               \* ticks elapsed in the loop's current sleep
    last_outcome,        \* outcome of the loop's last iteration
    loop_cycles,         \* cycles begun by the scheduling loop
    triggers,            \* cycles begun by on-demand triggers
    endpoint,            \* the endpoint the request task is serving
    faults,              \* failures of the environment so far
    stopped_at,          \* position of the loop when the stop was issued
    now,                 \* the wall clock datetime.now() reads
    summaries,           \* AIAnalyzerAgent._mock_analysis: the calls made
    text,                \* _parse_analysis_sections: the response text
    sections,            \* _parse_analysis_sections: the dict it returns
    db,                  \* DataAnalyzerAgent: price_records rows of its session
    records,             \* DataAnalyzerAgent: the window get_monthly_data returns
    analysis             \* DataAnalyzerAgent.run: its result dict

vars == <<app, pc, running, is_running, cancel_requested, model, prices,
          price_data, analysis_result, ai_result, result, trace, persisted,
          price_records, statistics_records, ai_analysis_records, slept,
          last_outcome, loop_cycles, triggers, endpoint, faults,
          stopped_at, db, records, analysis, timestamp, now,
          summaries, text, sections>>

\* the frame of one execute_pipeline call
frame == <<prices, price_data, timestamp, analysis_result, ai_result, result,
           trace, persisted>>
store == <<price_records, statistics_records, ai_analysis_records>>
sched == <<slept, last_outcome, loop_cycles>>
reqs == <<triggers, endpoint>>
life == <<app, is_running, cancel_requested, stopped_at>>
\* what no step of the application changes: the summarizer configured at
\* import, the analyzer's table, window and result when it is run on its own,
\* and the wall clock, which is followed only where timestamps are compared
setup == <<model, db, records, analysis, now, summaries, text, sections>>

Range(s) == {s[i] : i \in 1..Len(s)}

\* ------------------------------------------------------- data_analyzer.py
Metals == {"gold", "silver", "platinum"}

\* keys of the dict calculate_statistics returns for a window of n records
statistics_blocks(n) ==
    IF n = 0 THEN {"gold", "silver"} ELSE {"gold", "silver", "platinum"}

\* keys of the dict analyze_trend returns for a window of n records
trend_keys(n) ==
    IF n < 2 THEN {"gold_trend", "silver_trend"}
    ELSE {"gold_trend", "silver_trend",
          "gold_change_percent", "silver_change_percent"}

\* save_statistics: TRUE iff a StatisticsRecord is inserted; a missing key
\* (KeyError) and a failing commit are both caught and answered with None
save_statistics(stats, commitOk) ==
    Metals \subseteq stats /\ commitOk

\* DataAnalyzerAgent.run: three window reads, then save_statistics; a failing
\* query is not caught
data_analyzer_run(n, queryOk) ==
    IF ~queryOk THEN [kind |-> Raise, statistics |-> {}, trend |-> {}]
    ELSE [kind |-> "dict", statistics |-> statistics_blocks(n),
          trend |-> trend_keys(n)]

\* --------------------------------------------------------- ai_analyzer.py
FourSections ==
    {"market_analysis", "trend_prediction", "investment_advice", "risk_warning"}

\* _mock_analysis indexes statistics['gold'], statistics['silver'],
\* trend['gold_trend'], trend['silver_trend']: KeyError when one is missing
_mock_analysis(statistics, trend) ==
    IF {"gold", "silver"} \subseteq statistics
       /\ {"gold_trend", "silver_trend"} \subseteq trend
    THEN [kind |-> "fallback", sections |-> FourSections]
    ELSE [kind |-> Raise, sections |-> {}]

\* create_analysis_prompt indexes the same keys
create_analysis_prompt(statistics, trend) ==
    IF {"gold", "silver"} \subseteq statistics
       /\ {"gold_trend", "silver_trend"} \subseteq trend
    THEN "prompt"
    ELSE Raise

\* analyze_with_gemini; gemini is what generate_content / response.text do:
\* "text" (a response) or Raise (exception, timeout, blocked response)
analyze_with_gemini(statistics, trend, gemini) ==
    IF model = None THEN _mock_analysis(statistics, trend)
    ELSE IF create_analysis_prompt(statistics, trend) = Raise \/ gemini = Raise
         THEN _mock_analysis(statistics, trend)
         ELSE [kind |-> "parsed", sections |-> FourSections]

\* ------------------------------------------------- agent_coordinator.py
NewResult == [success |-> FALSE, errors |-> <<>>, data |-> {}]

\* the stage execute_pipeline runs after a stage that did not end the cycle
StageAfterSwapped(stage) ==
    CASE stage = "save" -> "summarize"
      [] stage = "summarize" -> "analyze"
      [] stage = "analyze" -> "return"
      [] OTHER -> "return"

StageAfter(stage) ==
    CASE stage = "save" -> "analyze"
      [] stage = "analyze" -> "summarize"
      [] stage = "summarize" -> "return"
      [] OTHER -> "return"

\* a blocking database call returns to its caller without a suspension point:
\* the caller still holds the thread
AfterCommitAwaited(t) == NoTask

AfterCommit(t) == t

\* collect_prices returns to data_collector.run, which validates and saves
\* without a suspension point: the task keeps the thread from the timestamp
\* to the insert
AfterCollectAwaited(t) == NoTask

AfterCollect(t) == t

\* the event loop resumes a suspended task only when the thread is free
Free == running = NoTask
\* a task in a synchronous stretch goes on when it holds the thread
Holds(t) == running = t \/ running = NoTask

\* the argument of asyncio.sleep after an iteration with the given outcome
SleepDurationRetrySooner(outcome) ==
    IF outcome = "success" THEN RefreshTicks ELSE RefreshTicks - 1

SleepDuration(outcome) == RefreshTicks


\* db.add(record); db.commit() with nothing else pending in the session: one
\* row more, with the next primary key, the rows before it as they were
db_add_commit_latest_only(table, record) ==
    <<[id |-> Len(table) + 1, record |-> record]>>

db_add_commit(table, record) ==
    Append(table, [id |-> Len(table) + 1, record |-> record])

\* a call of the environment may fail while the budget of failures lasts
MayFail(ok) == ok \/ faults < MaxFaults
Count(ok) == IF ok THEN 0 ELSE 1

AppInit ==
    /\ app = "init"
    /\ pc = [t \in Tasks |-> "none"]
    /\ running = NoTask
    /\ is_running = FALSE
    /\ cancel_requested = FALSE
    /\ model \in {None, "gemini"}
    /\ prices = [t \in Tasks |-> None]
    /\ price_data = [t \in Tasks |-> None]
    /\ timestamp = [t \in Tasks |-> 0]
    /\ analysis_result = [t \in Tasks |-> NoAnalysis]
    /\ ai_result = [t \in Tasks |-> NoSummary]
    /\ result = [t \in Tasks |-> NewResult]
    /\ trace = [t \in Tasks |-> <<>>]
    /\ persisted = [t \in Tasks |-> {}]
    /\ price_records = <<>>
    /\ statistics_records = <<>>
    /\ ai_analysis_records = <<>>
    /\ slept = 0
    /\ last_outcome = None
    /\ loop_cycles = 0
    /\ triggers = 0
    /\ endpoint = None
    /\ faults = 0
    /\ stopped_at = None

Init ==
    /\ AppInit
    /\ now = 0
    /\ summaries = <<>>
    /\ text = <<>>
    /\ sections = NotParsed
    /\ db = <<>>
    /\ records = <<>>
    /\ analysis = NotAnalyzed

\* the frame of a call that has not run yet, or has been left
FreshFrame(t) ==
    /\ prices' = [prices EXCEPT ![t] = None]
    /\ price_data' = [price_data EXCEPT ![t] = None]
    /\ timestamp' = [timestamp EXCEPT ![t] = 0]
    /\ analysis_result' = [analysis_result EXCEPT ![t] = NoAnalysis]
    /\ ai_result' = [ai_result EXCEPT ![t] = NoSummary]
    /\ result' = [result EXCEPT ![t] = NewResult]
    /\ persisted' = [persisted EXCEPT ![t] = {}]

\* execute_pipeline entered by task t: result initialised, Step 1 started, the
\* task suspends in the first httpx call of fetch_international_prices
BeginCycle(t) ==
    /\ pc' = [pc EXCEPT ![t] = "fetch_intl"]
    /\ FreshFrame(t)
    /\ trace' = [trace EXCEPT ![t] = <<"COLLECTING">>]
    /\ running' = NoTask

\* execute_pipeline has returned and its caller has used the result
Returned(t) ==
    /\ FreshFrame(t)
    /\ trace' = [trace EXCEPT ![t] = <<>>]
    /\ running' = NoTask

\* lifespan up to its yield: init_db, create_task(run_initial_collection()),
\* create_task(start_scheduled_collection(get_db))
lifespan_startup ==
    /\ app = "init"
    /\ app' = "serving"
    /\ pc' = [pc EXCEPT !["initial"] = "created", !["loop"] = "created"]
    /\ UNCHANGED <<running, is_running, cancel_requested, stopped_at, setup,
                   frame, store, sched, reqs, faults>>

\* first step of run_initial_collection: SessionLocal(), execute_pipeline
run_initial_collection ==
    /\ Free
    /\ pc["initial"] = "created"
    /\ BeginCycle("initial")
    /\ UNCHANGED <<life, setup, store, sched, reqs, faults>>

\* one pass of the while body of start_scheduled_collection up to its first
\* await: next(db_session_factory()) may raise, which the loop's except
\* catches before the sleep
LoopIteration(factoryOk) ==
    /\ MayFail(factoryOk)
    /\ faults' = faults + Count(factoryOk)
    /\ IF factoryOk
       THEN /\ loop_cycles < MaxLoopCycles
            /\ BeginCycle("loop")
            /\ loop_cycles' = loop_cycles + 1
            /\ UNCHANGED <<slept, last_outcome>>
       ELSE /\ pc' = [pc EXCEPT !["loop"] = "sleeping"]
            /\ slept' = 0
            /\ last_outcome' = "exception"
            /\ running' = NoTask
            /\ UNCHANGED <<frame, loop_cycles>>

\* first step of start_scheduled_collection; the ready queue is FIFO, so the
\* initial collection, created first, has started
start_scheduled_collection ==
    /\ Free
    /\ pc["loop"] = "created"
    /\ pc["initial"] # "created"
    /\ ~cancel_requested
    /\ is_running' = TRUE
    /\ \E factoryOk \in BOOLEAN : LoopIteration(factoryOk)
    /\ UNCHANGED <<app, cancel_requested, stopped_at, setup, store, reqs>>

\* time passes while the loop is suspended in asyncio.sleep
Tick ==
    /\ pc["loop"] = "sleeping"
    /\ app # "stopped"
    /\ slept < SleepDuration(last_outcome)
    /\ slept' = slept + 1
    /\ UNCHANGED <<life, pc, running, setup, frame, store, last_outcome,
                   loop_cycles, reqs, faults>>

\* asyncio.sleep returns: the while condition is tested again
loop_wake ==
    /\ Free
    /\ pc["loop"] = "sleeping"
    /\ ~cancel_requested
    /\ slept = SleepDuration(last_outcome)
    /\ IF is_running
       THEN \E factoryOk \in BOOLEAN : LoopIteration(factoryOk)
       ELSE /\ pc' = [pc EXCEPT !["loop"] = "done"]
            /\ UNCHANGED <<running, frame, sched, faults>>
    /\ UNCHANGED <<life, setup, store, reqs>>

\* a request for endpoint e arrives and its handler calls execute_pipeline
trigger(e) ==
    /\ app = "serving"
    /\ Free
    /\ pc["request"] = "none"
    /\ pc["initial"] # "created"
    /\ pc["loop"] # "created"
    /\ triggers < MaxTriggers
    /\ triggers' = triggers + 1
    /\ endpoint' = e
    /\ BeginCycle("request")
    /\ UNCHANGED <<life, setup, store, sched, faults>>

trigger_collection == trigger("post")

debug_collect == trigger("debug")

\* the event loop may resume t: the process lives and t is not the cancelled
\* background task
Resumable(t) == app # "stopped" /\ (t = "loop" => ~cancel_requested)

\* fetch_international_prices returns: both prices set, or (any exception
\* inside its try) both None; collect_prices awaits fetch_bot_gold_price
fetch_international_prices(t) ==
    /\ Free
    /\ Resumable(t)
    /\ pc[t] = "fetch_intl"
    /\ \E ok \in BOOLEAN :
         /\ MayFail(ok)
         /\ faults' = faults + Count(ok)
         /\ prices' = [prices EXCEPT ![t] = IF ok THEN "ok" ELSE None]
    /\ pc' = [pc EXCEPT ![t] = "fetch_bot"]
    /\ UNCHANGED <<life, running, setup, price_data, timestamp,
                   analysis_result, ai_result, result, trace, persisted,
                   store, sched, reqs>>

\* fetch_bot_gold_price returns (a price or None); collect_prices returns
\* None when gold_price or silver_price is None, else the price_data dict
\* stamped datetime.now(); no await follows in execute_pipeline
fetch_bot_gold_price(t) ==
    /\ Free
    /\ Resumable(t)
    /\ pc[t] = "fetch_bot"
    /\ \E bot_gold \in BOOLEAN :
          price_data' = [price_data EXCEPT
                           ![t] = IF prices[t] = None THEN None ELSE "data"]
    /\ timestamp' = [timestamp EXCEPT
                       ![t] = IF prices[t] = None THEN 0 ELSE now]
    /\ pc' = [pc EXCEPT ![t] = "save"]
    /\ running' = AfterCollect(t)
    /\ UNCHANGED <<life, setup, prices, analysis_result, ai_result, result,
                   trace, persisted, store, sched, reqs, faults>>

\* a failure that leaves no message in result["errors"]
WithErrorDropped(r, msg) == r

\* result after one more error message
WithError(r, msg) == [r EXCEPT !.errors = Append(@, msg)]

\* result after a stage of the try block ended without raising: its output
\* key is added or its failure message appended, and success = True once the
\* block is through
Advance(r, stage, key, ok, msg) ==
    LET r1 == IF ok THEN [r EXCEPT !.data = @ \cup {key}] ELSE WithError(r, msg)
    IN  IF StageAfter(stage) = "return" THEN [r1 EXCEPT !.success = TRUE] ELSE r1

\* rest of data_collector.run (validate_data, save_to_database) and the test
\* `if not price_data` of execute_pipeline
collect_save(t) ==
    /\ Holds(t)
    /\ pc[t] = "save"
    /\ app # "stopped"
    /\ IF price_data[t] = None
       THEN /\ result' = [result EXCEPT ![t] = WithError(@, ErrCollect)]
            /\ pc' = [pc EXCEPT ![t] = "return"]
            /\ running' = t
            /\ UNCHANGED <<price_data, timestamp, price_records, trace,
                           persisted, faults>>
       ELSE \E commitOk \in BOOLEAN :
            /\ MayFail(commitOk)
            /\ faults' = faults + Count(commitOk)
            /\ running' = AfterCommit(t)
            /\ IF commitOk
               THEN /\ price_records' =
                         db_add_commit(price_records,
                                       [timestamp |-> timestamp[t]])
                    /\ persisted' = [persisted EXCEPT ![t] = @ \cup {"Observation"}]
                    /\ result' = [result EXCEPT ![t] =
                          Advance(@, "save", "prices", TRUE, ErrCollect)]
                    /\ trace' = [trace EXCEPT ![t] = Append(@, "OBS_PERSISTED")]
                    /\ pc' = [pc EXCEPT ![t] = StageAfter("save")]
                    /\ UNCHANGED <<price_data, timestamp>>
               ELSE /\ result' = [result EXCEPT ![t] = WithError(@, ErrCollect)]
                    /\ price_data' = [price_data EXCEPT ![t] = None]
                    /\ timestamp' = [timestamp EXCEPT ![t] = 0]
                    /\ pc' = [pc EXCEPT ![t] = "return"]
                    /\ UNCHANGED <<price_records, trace, persisted>>
    /\ UNCHANGED <<life, setup, prices, analysis_result, ai_result,
                   statistics_records, ai_analysis_records, sched, reqs>>

\* Step 2 of execute_pipeline: data_analyzer.run and the test
\* `if not analysis_result`; an exception goes to the except of the pipeline.
\* A failed query raises before save_statistics commits, so at most one of
\* the two calls fails
analyze(t) ==
    /\ Holds(t)
    /\ pc[t] = "analyze"
    /\ app # "stopped"
    /\ \E queryOk \in BOOLEAN, commitOk \in BOOLEAN :
         LET r == data_analyzer_run(Len(price_records), queryOk) IN
         /\ MayFail(queryOk /\ commitOk)
         /\ queryOk \/ commitOk
         /\ faults' = faults + Count(queryOk /\ commitOk)
         /\ IF r.kind = Raise
            THEN /\ result' = [result EXCEPT ![t] = WithError(@, ErrException)]
                 /\ trace' = [trace EXCEPT ![t] = Append(@, "ANALYZING")]
                 /\ pc' = [pc EXCEPT ![t] = "return"]
                 /\ UNCHANGED <<analysis_result, statistics_records, persisted>>
            ELSE /\ IF save_statistics(r.statistics, commitOk)
                    THEN /\ statistics_records' =
                              db_add_commit(statistics_records,
                                            "StatisticsSnapshot")
                         /\ persisted' = [persisted EXCEPT
                                            ![t] = @ \cup {"StatisticsSnapshot"}]
                    ELSE UNCHANGED <<statistics_records, persisted>>
                 /\ analysis_result' = [analysis_result EXCEPT ![t] = r]
                 /\ result' = [result EXCEPT ![t] =
                       Advance(@, "analyze", "analysis", r.kind # None, ErrAnalysis)]
                 /\ trace' = [trace EXCEPT ![t] = @ \o <<"ANALYZING", "ANALYZED">>]
                 /\ pc' = [pc EXCEPT ![t] = StageAfter("analyze")]
    /\ running' = AfterCommit(t)
    /\ UNCHANGED <<life, setup, prices, price_data, timestamp, ai_result,
                   price_records, ai_analysis_records, sched, reqs>>

\* Step 3 of execute_pipeline: analysis_result.get (AttributeError on None),
\* ai_analyzer.run (analyze_with_gemini, save_analysis) and the test
\* `if not ai_result`.  generate_content is called only with a model
\* configured, save_analysis only when an analysis was produced
summarize(t) ==
    /\ Holds(t)
    /\ pc[t] = "summarize"
    /\ app # "stopped"
    /\ \E gemini \in {"text", Raise}, commitOk \in BOOLEAN :
         LET a == IF analysis_result[t].kind = None
                  THEN [kind |-> Raise, sections |-> {}]
                  ELSE analyze_with_gemini(analysis_result[t].statistics,
                                           analysis_result[t].trend, gemini)
             geminiOk == gemini # Raise \/ model = None
         IN
         /\ model = None => gemini = "text"
         /\ MayFail(geminiOk)
         /\ faults + Count(geminiOk) + Count(commitOk) <= MaxFaults
         /\ IF a.kind = Raise
            THEN /\ commitOk
                 /\ faults' = faults + Count(geminiOk)
                 /\ result' = [result EXCEPT ![t] = WithError(@, ErrException)]
                 /\ pc' = [pc EXCEPT ![t] = "return"]
                 /\ UNCHANGED <<ai_result, ai_analysis_records, persisted>>
            ELSE /\ faults' = faults + Count(geminiOk) + Count(commitOk)
                 /\ IF commitOk
                    THEN /\ ai_analysis_records' =
                              db_add_commit(ai_analysis_records,
                                            "NarrativeSummary")
                         /\ persisted' = [persisted EXCEPT
                                            ![t] = @ \cup {"NarrativeSummary"}]
                    ELSE UNCHANGED <<ai_analysis_records, persisted>>
                 /\ ai_result' = [ai_result EXCEPT ![t] = a]
                 /\ result' = [result EXCEPT ![t] =
                       Advance(@, "summarize", "ai_analysis", a.kind # None, ErrAI)]
                 /\ pc' = [pc EXCEPT ![t] = StageAfter("summarize")]
    /\ trace' = [trace EXCEPT ![t] = Append(@, "SUMMARIZING")]
    /\ running' = AfterCommit(t)
    /\ UNCHANGED <<life, setup, prices, price_data, timestamp,
                   analysis_result, price_records, statistics_records, sched,
                   reqs>>

\* execute_pipeline returns to run_initial_collection, which closes its session
initial_return ==
    /\ Holds("initial")
    /\ pc["initial"] = "return"
    /\ app # "stopped"
    /\ pc' = [pc EXCEPT !["initial"] = "done"]
    /\ Returned("initial")
    /\ UNCHANGED <<life, setup, store, sched, reqs, faults>>

\* the dict a handler returns, or the HTTPException it raises
Answer(kind, code, keys, errors) ==
    [kind |-> kind, code |-> code, keys |-> keys, errors |-> errors]

\* the try block of trigger_collection: the data on success, else
\* raise HTTPException(500, detail = {status, message, errors})
trigger_collection_try(r) ==
    IF r.success
    THEN Answer("return", 200, {"status", "message", "data"}, <<>>)
    ELSE Answer(Raise, 500, {"status", "message", "errors"}, r.errors)

\* trigger_collection: HTTPException is an Exception, so the handler's own
\* `except Exception` catches the one its try block raised and raises
\* HTTPException(500, detail = {status, message: str(e)}) in its place
trigger_collection_answer(r) ==
    IF trigger_collection_try(r).kind = Raise
    THEN Answer(Raise, 500, {"status", "message"}, <<>>)
    ELSE trigger_collection_try(r)

\* debug_collect: status and pipeline_result {success, errors, data_captured}
debug_collect_answer(r) ==
    Answer("return", 200, {"status", "pipeline_result"}, r.errors)

\* the answer of the handler serving the request to the result it received
response ==
    IF endpoint = "post" THEN trigger_collection_answer(result["request"])
    ELSE debug_collect_answer(result["request"])

\* execute_pipeline returns to a request handler, which answers with
\* `response`; no await lies between the two
request_return ==
    /\ Holds("request")
    /\ pc["request"] = "return"
    /\ app # "stopped"
    /\ pc' = [pc EXCEPT !["request"] = "none"]
    /\ endpoint' = None
    /\ Returned("request")
    /\ UNCHANGED <<life, setup, store, sched, triggers, faults>>

\* execute_pipeline returns to the scheduling loop: the result is logged,
\* db.close() (which may raise into the loop's except), then asyncio.sleep
loop_return ==
    /\ Holds("loop")
    /\ pc["loop"] = "return"
    /\ app # "stopped"
    /\ \E closeOk \in BOOLEAN :
         /\ MayFail(closeOk)
         /\ faults' = faults + Count(closeOk)
         /\ last_outcome' = IF ~closeOk THEN "exception"
                            ELSE IF result["loop"].success THEN "success"
                            ELSE "failed"
    /\ pc' = [pc EXCEPT !["loop"] = "sleeping"]
    /\ slept' = 0
    /\ Returned("loop")
    /\ UNCHANGED <<life, setup, store, loop_cycles, reqs>>

\* lifespan after its yield: stop_scheduled_collection() and
\* background_task.cancel(); lifespan then awaits the task. The server
\* decides when the shutdown arrives: it may find the loop task created but
\* not yet stepped
lifespan_shutdown_forgetful ==
    /\ app = "serving"
    /\ Free
    /\ pc["initial"] # "created"
    /\ app' = "stopping"
    /\ stopped_at' = pc["loop"]
    /\ UNCHANGED <<is_running, cancel_requested, pc, running, setup, frame,
                   store, sched, reqs, faults>>

\* lifespan after its yield with stop_scheduled_collection() alone: the flag
\* is cleared and the loop task is left to run
lifespan_shutdown_uncancelled ==
    /\ app = "serving"
    /\ Free
    /\ pc["initial"] # "created"
    /\ app' = "stopping"
    /\ is_running' = FALSE
    /\ stopped_at' = pc["loop"]
    /\ UNCHANGED <<cancel_requested, pc, running, setup, frame, store, sched,
                   reqs, faults>>

lifespan_shutdown ==
    /\ app = "serving"
    /\ Free
    /\ pc["initial"] # "created"
    /\ app' = "stopping"
    /\ is_running' = FALSE
    /\ cancel_requested' = TRUE
    /\ stopped_at' = pc["loop"]
    /\ UNCHANGED <<pc, running, setup, frame, store, sched, reqs, faults>>

\* the event loop steps the cancelled task: CancelledError is thrown at the
\* await it is suspended in and, being a BaseException, passes every
\* `except Exception` on its way out of the coroutine; thrown into a
\* coroutine that has not started, it ends the task before the first
\* statement of start_scheduled_collection
cancel_delivered ==
    /\ Free
    /\ cancel_requested
    /\ pc["loop"] \in FetchStages \cup {"sleeping", "created"}
    /\ pc' = [pc EXCEPT !["loop"] = "cancelled"]
    /\ cancel_requested' = FALSE
    /\ UNCHANGED <<app, is_running, stopped_at, running, setup, frame, store,
                   sched, reqs, faults>>

\* `await background_task` raises CancelledError into lifespan, which logs
\* and returns; the server process ends
lifespan_exit ==
    /\ Free
    /\ app = "stopping"
    /\ pc["loop"] = "cancelled"
    /\ app' = "stopped"
    /\ UNCHANGED <<is_running, cancel_requested, stopped_at, pc, running,
                   setup, frame, store, sched, reqs, faults>>

Next ==
    \/ lifespan_startup
    \/ run_initial_collection
    \/ start_scheduled_collection
    \/ Tick
    \/ loop_wake
    \/ trigger_collection
    \/ debug_collect
    \/ \E t \in Tasks : fetch_international_prices(t)
    \/ \E t \in Tasks : fetch_bot_gold_price(t)
    \/ \E t \in Tasks : collect_save(t)
    \/ \E t \in Tasks : analyze(t)
    \/ \E t \in Tasks : summarize(t)
    \/ initial_return
    \/ request_return
    \/ loop_return
    \/ lifespan_shutdown
    \/ cancel_delivered
    \/ lifespan_exit

Spec == Init /\ [][Next]_vars

\* ------------------------------------------ data_analyzer.py, in numbers
\* Prices are whole numbers of TWD.  A numpy float64 is a fraction n/d
\* (d > 0), or inf, -inf, nan: dividing an np.float64 by zero warns and
\* gives one of these, it does not raise.
Fin(n, d) == [fp |-> "finite", n |-> n, d |-> d]
PosInf == [fp |-> "inf", n |-> 1, d |-> 0]
NegInf == [fp |-> "-inf", n |-> -1, d |-> 0]
NaN == [fp |-> "nan", n |-> 0, d |-> 0]

IsFinite(x) == x.fp = "finite"
IsZero(x) == IsFinite(x) /\ x.n = 0

\* x > k and x < k for a whole number k; every comparison with nan is False
Gt(x, k) == x.fp = "inf" \/ (IsFinite(x) /\ x.n > k * x.d)
Lt(x, k) == x.fp = "-inf" \/ (IsFinite(x) /\ x.n < k * x.d)

\* comparison and quotient of two non-negative finite fractions
FracGt(a, b) == IF a.d = b.d THEN a.n > b.n ELSE a.n * b.d > b.n * a.d
FracDiv(a, b) ==
    IF b.n = 0 THEN (IF a.n = 0 THEN NaN ELSE PosInf)
    ELSE IF a.d = b.d THEN Fin(a.n, b.n)
    ELSE Fin(a.n * b.d, a.d * b.n)

\* n/d rounded to the nearest whole number, ties to even (numpy's rint)
RoundDiv(n, d) ==
    LET q == n \div d
        r == n % d
    IN  IF 2 * r < d THEN q
        ELSE IF 2 * r > d THEN q + 1
        ELSE IF q % 2 = 0 THEN q ELSE q + 1

RECURSIVE ISqrt(_)
\* the whole part of the square root
ISqrt(n) ==
    IF n < 2 THEN n
    ELSE LET s == 2 * ISqrt(n \div 4)
         IN  IF (s + 1) * (s + 1) > n THEN s ELSE s + 1

RECURSIVE SumSeq(_)
SumSeq(xs) == IF xs = <<>> THEN 0 ELSE Head(xs) + SumSeq(Tail(xs))

RECURSIVE Insert(_, _)
Insert(x, sorted) ==
    IF sorted = <<>> THEN <<x>>
    ELSE IF x <= Head(sorted) THEN <<x>> \o sorted
    ELSE <<Head(sorted)>> \o Insert(x, Tail(sorted))

RECURSIVE Sorted(_)
Sorted(xs) == IF xs = <<>> THEN <<>> ELSE Insert(Head(xs), Sorted(Tail(xs)))

\* np.mean of a non-empty list
np_mean(xs) == Fin(SumSeq(xs), Len(xs))

\* n * x - sum(xs): the distance of x from the mean, in n-ths
Dist(xs, x) == Len(xs) * x - SumSeq(xs)

\* the sample variance (ddof = 1) in place of the population variance, to
\* the whole part of its numerator
np_var_sample(xs) ==
    LET n == Len(xs)
    IN  IF n = 1 THEN Fin(0, 1)
        ELSE Fin(SumSeq([i \in 1..n |-> Dist(xs, xs[i]) * Dist(xs, xs[i])])
                     \div (n - 1),
                 n * n)

\* np.std(xs) squared, the population variance: mean(abs(x - mean) ** 2),
\* as a fraction over n * n
np_var(xs) ==
    LET n == Len(xs)
    IN  Fin(SumSeq([i \in 1..n |-> Dist(xs, xs[i]) * Dist(xs, xs[i])]) \div n,
            n * n)

\* abs(x - np.mean(xs)) squared, as a fraction over n * n
SqDist(xs, x) == Fin(Dist(xs, x) * Dist(xs, x), Len(xs) * Len(xs))

\* round(float(np.std(xs)), 2), in hundredths
std_cents(xs) ==
    LET v == np_var(xs)
        whole == (v.n \div v.d) * 10000 + ((v.n % v.d) * 10000) \div v.d
        frac == ((v.n % v.d) * 10000) % v.d
        k == ISqrt(whole)
    IN  IF whole > k * k + k \/ (whole = k * k + k /\ 4 * frac > v.d)
        THEN k + 1 ELSE k

\* round(float(np.median(xs)), 2), in hundredths
median_cents(xs) ==
    LET n == Len(xs)
        ys == Sorted(xs)
    IN  IF n % 2 = 1 THEN 100 * ys[(n + 1) \div 2]
        ELSE 50 * (ys[n \div 2] + ys[n \div 2 + 1])

\* the statistics of one metal, each rounded to 2 decimals, in hundredths
metal_stats(xs) ==
    [avg |-> RoundDiv(100 * SumSeq(xs), Len(xs)),
     max |-> 100 * (CHOOSE x \in Range(xs) : \A y \in Range(xs) : y <= x),
     min |-> 100 * (CHOOSE x \in Range(xs) : \A y \in Range(xs) : x <= y),
     std |-> std_cents(xs),
     median |-> median_cents(xs)]

ZeroStats == [avg |-> 0, max |-> 0, min |-> 0, std |-> 0, median |-> 0]

\* the columns of a window; platinum_price is nullable: <<>> or <<price>>
gold_prices(rs) == [i \in 1..Len(rs) |-> rs[i].gold_price]
silver_prices(rs) == [i \in 1..Len(rs) |-> rs[i].silver_price]
RECURSIVE platinum_prices(_)
platinum_prices(rs) ==
    IF rs = <<>> THEN <<>>
    ELSE Head(rs).platinum_price \o platinum_prices(Tail(rs))

\* _empty_statistics (timestamp left out)
_empty_statistics ==
    [gold |-> ZeroStats, silver |-> ZeroStats,
     period |-> "monthly", data_points |-> 0]

\* calculate_statistics on the window rs (timestamp left out)
calculate_statistics(rs) ==
    IF rs = <<>> THEN _empty_statistics
    ELSE [gold |-> metal_stats(gold_prices(rs)),
          silver |-> metal_stats(silver_prices(rs)),
          platinum |-> IF platinum_prices(rs) # <<>>
                       THEN metal_stats(platinum_prices(rs))
                       ELSE ZeroStats,
          period |-> "monthly",
          data_points |-> Len(rs)]

\* the ±2 of _determine_trend, the 3 and the 10 of detect_anomalies
TrendThreshold == 2
AnomalyMultiplier == 3
MinAnomalyWindow == 10

\* a[lo..hi] of a list
Slice(xs, lo, hi) == [i \in 1..(hi - lo + 1) |-> xs[lo + i - 1]]

\* (second - first) / first * 100 on two np.float64 means; first = 0 gives
\* inf, -inf or nan
percent_change(first, second) ==
    LET diff == second.n * first.d - first.n * second.d
    IN  IF first.n = 0
        THEN (IF diff > 0 THEN PosInf ELSE IF diff < 0 THEN NegInf ELSE NaN)
        ELSE IF first.n > 0 THEN Fin(100 * diff, second.d * first.n)
        ELSE Fin(-100 * diff, -(second.d * first.n))

\* round(x, 2): inf and nan stay what they are
round2(x) == IF IsFinite(x) THEN Fin(RoundDiv(100 * x.n, x.d), 100) ELSE x

\* _determine_trend; "rising", "falling", "flat" stand for 上升, 下降, 持平
_determine_trend(first_value, second_value) ==
    LET change_percent == percent_change(first_value, second_value)
    IN  IF Gt(change_percent, TrendThreshold) THEN "rising"
        ELSE IF Lt(change_percent, -TrendThreshold) THEN "falling"
        ELSE "flat"

\* analyze_trend on the window rs: the dict it returns
analyze_trend(rs) ==
    IF Len(rs) < 2
    THEN [gold_trend |-> "insufficient_data",
          silver_trend |-> "insufficient_data"]
    ELSE LET mid_point == Len(rs) \div 2
             gold_first_half == np_mean(Slice(gold_prices(rs), 1, mid_point))
             gold_second_half ==
                 np_mean(Slice(gold_prices(rs), mid_point + 1, Len(rs)))
             silver_first_half ==
                 np_mean(Slice(silver_prices(rs), 1, mid_point))
             silver_second_half ==
                 np_mean(Slice(silver_prices(rs), mid_point + 1, Len(rs)))
         IN  [gold_trend |->
                  _determine_trend(gold_first_half, gold_second_half),
              silver_trend |->
                  _determine_trend(silver_first_half, silver_second_half),
              gold_change_percent |->
                  round2(percent_change(gold_first_half, gold_second_half)),
              silver_change_percent |->
                  round2(percent_change(silver_first_half,
                                        silver_second_half))]

\* dict.get(key, default)
Get(dict, key, default) == IF key \in DOMAIN dict THEN dict[key] ELSE default

\* the test of detect_anomalies with >= for >
beyond_or_at(xs, x) ==
    ~FracGt([np_var(xs) EXCEPT !.n = @ * AnomalyMultiplier * AnomalyMultiplier],
            SqDist(xs, x))

\* abs(x - mean) > 3 * std, both sides squared
beyond(xs, x) ==
    FracGt(SqDist(xs, x),
           [np_var(xs) EXCEPT !.n = @ * AnomalyMultiplier * AnomalyMultiplier])

\* the record appended for observation i of the window; `at` stands for the
\* record's timestamp, and deviation, abs(x - mean) / std, is kept as its
\* square (inf or nan when std = 0)
anomaly(type, xs, i) ==
    [type |-> type, at |-> i, price |-> xs[i],
     deviation |-> FracDiv(SqDist(xs, xs[i]), np_var(xs))]

RECURSIVE scan_silver_first(_, _)
\* the for loop of detect_anomalies with its two tests swapped
scan_silver_first(rs, i) ==
    IF i > Len(rs) THEN <<>>
    ELSE (IF beyond(silver_prices(rs), rs[i].silver_price)
          THEN <<anomaly("silver", silver_prices(rs), i)>> ELSE <<>>)
         \o (IF beyond(gold_prices(rs), rs[i].gold_price)
             THEN <<anomaly("gold", gold_prices(rs), i)>> ELSE <<>>)
         \o scan_silver_first(rs, i + 1)

RECURSIVE scan(_, _)
\* the for loop of detect_anomalies from record i on
scan(rs, i) ==
    IF i > Len(rs) THEN <<>>
    ELSE (IF beyond(gold_prices(rs), rs[i].gold_price)
          THEN <<anomaly("gold", gold_prices(rs), i)>> ELSE <<>>)
         \o (IF beyond(silver_prices(rs), rs[i].silver_price)
             THEN <<anomaly("silver", silver_prices(rs), i)>> ELSE <<>>)
         \o scan(rs, i + 1)

\* detect_anomalies on the window rs
detect_anomalies(rs) ==
    IF Len(rs) < MinAnomalyWindow THEN <<>> ELSE scan(rs, 1)

\* the exception save_statistics catches on the dict calculate_statistics
\* returned: stats["platinum"] on a dict without it, or a failing commit
save_statistics_except(stats, commitOk) ==
    IF ~(Metals \subseteq DOMAIN stats) THEN "KeyError"
    ELSE IF ~commitOk THEN "CommitError"
    ELSE None

\* save_statistics without its try/except
save_statistics_uncaught(stats, commitOk) ==
    save_statistics_except(stats, commitOk)

\* the exception that leaves save_statistics: none, `except Exception` logs
\* it, rolls back and returns None
save_statistics_raises(stats, commitOk) == None

\* DataAnalyzerAgent.run on the window rs: the dict it returns, what
\* save_statistics did (its return value is dropped by run), and the
\* exception that leaves run
DataAnalyzerAgent_run(rs, commitOk) ==
    [called |-> TRUE,
     statistics |-> calculate_statistics(rs),
     trend |-> analyze_trend(rs),
     anomalies |-> detect_anomalies(rs),
     saved |-> save_statistics(DOMAIN calculate_statistics(rs) \cap Metals,
                               commitOk),
     save_except |-> save_statistics_except(calculate_statistics(rs),
                                            commitOk),
     raised |-> save_statistics_raises(calculate_statistics(rs), commitOk)]

\* ------------------------------------------------- the analyzer on its own
\* longest run of equal observations a window starts with, and the number of
\* free observations after it
MaxRun == 10
MaxTail == 2

\* rows of price_records: gold_price, silver_price, platinum_price (nullable)
Quote(g, s, p) == [gold_price |-> g, silver_price |-> s, platinum_price |-> p]
Quotes ==
    {Quote(20000, 100, <<>>), Quote(20400, 102, <<>>),
     Quote(20401, 0, <<3000>>), Quote(20000, 98, <<3100>>)}

RECURSIVE Tails(_)
Tails(k) ==
    IF k = 0 THEN {<<>>}
    ELSE Tails(k - 1) \cup
         {Append(t, q) : t \in {u \in Tails(k - 1) : Len(u) = k - 1}, q \in Quotes}

\* the windows get_monthly_data may return, oldest record first
Windows ==
    {[i \in 1..n |-> q] \o t : q \in Quotes, n \in 0..MaxRun, t \in Tails(MaxTail)}

AnalyzerInit ==
    /\ AppInit
    /\ model = None
    /\ now = 0
    /\ summaries = <<>>
    /\ text = <<>>
    /\ sections = NotParsed
    /\ db = <<>>
    /\ records \in Windows
    /\ analysis = NotAnalyzed

\* data_analyzer.run(db) on the window
analyzer_run ==
    /\ ~analysis.called
    /\ \E commitOk \in BOOLEAN :
           analysis' = DataAnalyzerAgent_run(records, commitOk)
    /\ UNCHANGED <<life, pc, running, model, now, summaries, text, sections,
                   db, records, frame, store, sched, reqs, faults>>

AnalyzerNext == analyzer_run

AnalyzerSpec == AnalyzerInit /\ [][AnalyzerNext]_vars

\* ------------------------------------------- the analyzer on a stored table
\* days between the oldest row get_monthly_data keeps and now
MonthDays == 30
\* datetime.now() at the query, in days; rows are stamped from day 0 on
Now == 31

\* a row of price_records with its timestamp
PriceRecord(ts, q) == [timestamp |-> ts] @@ q

RECURSIVE InsertByTimestamp(_, _)
\* ORDER BY timestamp ASC, one row at a time
InsertByTimestamp(r, sorted) ==
    IF sorted = <<>> THEN <<r>>
    ELSE IF r.timestamp < Head(sorted).timestamp THEN <<r>> \o sorted
    ELSE <<Head(sorted)>> \o InsertByTimestamp(r, Tail(sorted))

RECURSIVE order_by_timestamp(_)
order_by_timestamp(rows) ==
    IF rows = <<>> THEN <<>>
    ELSE InsertByTimestamp(rows[Len(rows)],
                           order_by_timestamp(SubSeq(rows, 1, Len(rows) - 1)))

\* filter(PriceRecord.timestamp >= one_month_ago)
filter_month(rows) ==
    SelectSeq(rows, LAMBDA r : r.timestamp >= Now - MonthDays)

\* the query without its order_by: rows as the table holds them
get_monthly_data_unordered(rows) == filter_month(rows)

\* get_monthly_data on a session whose price_records holds rows
get_monthly_data(rows) == order_by_timestamp(filter_month(rows))

\* the rows of window w as collected one a day, the first a month ago
Stamped(w) == [i \in 1..Len(w) |-> PriceRecord(Now - MonthDays + i - 1, w[i])]

\* orders in which n rows may have been inserted: as collected, backwards,
\* the oldest last, and the two newest swapped
Orders(n) ==
    {[i \in 1..n |-> i], [i \in 1..n |-> n + 1 - i],
     [i \in 1..n |-> (i % n) + 1],
     [i \in 1..n |-> IF n < 2 THEN i
                     ELSE IF i = n - 1 THEN n
                     ELSE IF i = n THEN n - 1 ELSE i]}

Permuted(rows, p) == [i \in 1..Len(rows) |-> rows[p[i]]]

\* a row older than a month, inserted first
Stale == <<PriceRecord(0, Quote(20401, 0, <<3000>>))>>

\* the tables the session may hold: the rows of a window that is empty or
\* long enough for the detector and ends with at most one free observation,
\* in one of the orders, with or without an older row
Tables ==
    UNION {{old \o Permuted(Stamped(w), p) :
               old \in {<<>>, Stale}, p \in Orders(Len(w))} :
           w \in {[i \in 1..n |-> q] \o t :
                     q \in Quotes, n \in {0, MaxRun}, t \in Tails(1)}}

WindowInit ==
    /\ AppInit
    /\ model = None
    /\ now = 0
    /\ summaries = <<>>
    /\ text = <<>>
    /\ sections = NotParsed
    /\ db \in Tables
    /\ records = <<>>
    /\ analysis = NotAnalyzed

\* data_analyzer.run(db) on the table
analyzer_query ==
    /\ ~analysis.called
    /\ records' = get_monthly_data(db)
    /\ \E commitOk \in BOOLEAN :
           analysis' = DataAnalyzerAgent_run(records', commitOk)
    /\ UNCHANGED <<life, pc, running, model, now, summaries, text, sections,
                   db, frame, store, sched, reqs, faults>>

WindowNext == analyzer_query

WindowSpec == WindowInit /\ [][WindowNext]_vars

\* ------------------------------------------- the cycles under the wall clock
\* ticks of the wall clock, and Observations persisted, in one behaviour
MaxClock == 2
MaxObservations == 2

\* time passes
tock ==
    /\ now < MaxClock
    /\ now' = now + 1
    /\ UNCHANGED <<life, pc, running, model, summaries, text, sections, db,
                   records, analysis, frame, store, sched, reqs, faults>>

\* some caller (lifespan, the scheduling loop, a handler) lets task t enter
\* execute_pipeline
execute_pipeline(t) ==
    /\ Free
    /\ pc[t] = "none"
    /\ Len(price_records) < MaxObservations
    /\ BeginCycle(t)
    /\ UNCHANGED <<life, setup, store, sched, reqs, faults>>

\* execute_pipeline returns and its caller is through with the result
pipeline_return(t) ==
    /\ Holds(t)
    /\ pc[t] = "return"
    /\ pc' = [pc EXCEPT ![t] = "none"]
    /\ Returned(t)
    /\ UNCHANGED <<life, setup, store, sched, reqs, faults>>

ClockInit == Init

ClockNext ==
    \/ tock
    \/ \E t \in Tasks :
          \/ execute_pipeline(t)
          \/ fetch_international_prices(t)
          \/ fetch_bot_gold_price(t)
          \/ collect_save(t)
          \/ analyze(t)
          \/ summarize(t)
          \/ pipeline_return(t)

ClockSpec == ClockInit /\ [][ClockNext]_vars

\* ------------------------------------------------ the fallback on its own
\* the std above which _mock_analysis speaks of high volatility
HighVolatilityStd == 200
\* calls of _mock_analysis in one behaviour
MaxCalls == 2

\* the text of _mock_analysis: each section is its template with the values
\* the f-string interpolates, in order; prices are in units, statistics in
\* hundredths
_mock_analysis_sections(current_data, statistics, trend) ==
    LET gold_price == Get(current_data, "gold_price", 0)
        gold_avg == statistics.gold.avg
        gold_trend == trend.gold_trend
        silver_price == Get(current_data, "silver_price", 0)
        silver_avg == statistics.silver.avg
        silver_trend == trend.silver_trend
    IN  [market_analysis |->
             <<gold_price,
               IF 100 * gold_price > gold_avg THEN "above" ELSE "below",
               gold_avg,
               silver_price,
               IF 100 * silver_price > silver_avg THEN "above" ELSE "below",
               silver_avg,
               IF gold_trend = "rising" THEN "bullish"
               ELSE IF gold_trend = "falling" THEN "bearish" ELSE "sideways">>,
         trend_prediction |->
             <<gold_trend, silver_trend,
               statistics.gold.min, statistics.gold.max,
               statistics.silver.min, statistics.silver.max>>,
         investment_advice |-> <<>>,
         risk_warning |->
             <<statistics.gold.std,
               IF statistics.gold.std > 100 * HighVolatilityStd
               THEN "high" ELSE "normal">>]

\* _mock_analysis putting the time of the call into its text
_mock_analysis_dated(current_data, statistics, trend) ==
    [_mock_analysis_sections(current_data, statistics, trend)
        EXCEPT !.investment_advice = <<now>>]

\* _mock_analysis(current_data, statistics, trend): its four sections
_mock_analysis_text(current_data, statistics, trend) ==
    _mock_analysis_sections(current_data, statistics, trend)

\* the window of a cycle: its latest observation is the cycle's price_data
FallbackInit ==
    /\ AppInit
    /\ model = None
    /\ now = 0
    /\ summaries = <<>>
    /\ text = <<>>
    /\ sections = NotParsed
    /\ db = <<>>
    /\ records \in {[i \in 1..n |-> q] \o t :
                       q \in Quotes, n \in {1, 2}, t \in Tails(1)}
    /\ analysis = NotAnalyzed

\* another cycle persists an Observation
other_cycle_saves ==
    /\ Len(price_records) < MaxObservations
    /\ price_records' = db_add_commit(price_records, [timestamp |-> now])
    /\ UNCHANGED <<life, pc, running, setup, frame, statistics_records,
                   ai_analysis_records, sched, reqs, faults>>

\* analyze_with_gemini without a model, or after an exception: the fallback
\* is called on the cycle's price_data, statistics and trend
mock_analysis ==
    /\ analysis.called
    /\ Len(summaries) < MaxCalls
    /\ summaries' =
           Append(summaries,
                  [at |-> now,
                   stored |-> Len(price_records),
                   sections |-> _mock_analysis_text(records[Len(records)],
                                                    analysis.statistics,
                                                    analysis.trend)])
    /\ UNCHANGED <<life, pc, running, model, now, text, sections, db,
                   records, analysis, frame, store, sched, reqs, faults>>

FallbackNext ==
    \/ analyzer_run
    \/ mock_analysis
    \/ tock
    \/ other_cycle_saves

FallbackSpec == FallbackInit /\ [][FallbackNext]_vars

\* ------------------------------------------------- the parser on its own
\* lines of the response text
MaxLines == 3

\* the sections in the order of the dicts `sections` and `keywords`
SectionOrder ==
    <<"market_analysis", "trend_prediction", "investment_advice",
      "risk_warning">>

\* a text is a sequence of tokens: "\n", " ", a letter, or a token standing
\* for the keywords of one section ("1." also stands for the section's title
\* and for "**1.")
keywords ==
    [market_analysis |-> {"1."}, trend_prediction |-> {"2."},
     investment_advice |-> {"3."}, risk_warning |-> {"4."}]

RECURSIVE split(_)
\* text.split('\n'): at least one line, none holding "\n"
split(txt) ==
    IF \A i \in 1..Len(txt) : txt[i] # "\n" THEN <<txt>>
    ELSE LET k == CHOOSE i \in 1..Len(txt) :
                      txt[i] = "\n" /\ \A j \in 1..(i - 1) : txt[j] # "\n"
         IN  <<SubSeq(txt, 1, k - 1)>> \o split(SubSeq(txt, k + 1, Len(txt)))

\* any(key in line for key in keys)
has_key(line, keys) == \E i \in 1..Len(line) : line[i] \in keys

\* line.strip() is not empty
strip_nonempty(line) == \E i \in 1..Len(line) : line[i] # " "

\* the inner for loop without its break: the last section matching wins
last_match(line, current_section) ==
    IF \E k \in 1..4 : has_key(line, keywords[SectionOrder[k]])
    THEN SectionOrder[CHOOSE k \in 1..4 :
             /\ has_key(line, keywords[SectionOrder[k]])
             /\ \A j \in (k + 1)..4 :
                    ~has_key(line, keywords[SectionOrder[j]])]
    ELSE current_section

\* the inner for loop: current_section after the line, the first section in
\* dict order one of whose keys occurs in it, else what it was
first_match(line, current_section) ==
    IF \E k \in 1..4 : has_key(line, keywords[SectionOrder[k]])
    THEN SectionOrder[CHOOSE k \in 1..4 :
             /\ has_key(line, keywords[SectionOrder[k]])
             /\ \A j \in 1..(k - 1) :
                    ~has_key(line, keywords[SectionOrder[j]])]
    ELSE current_section

RECURSIVE parse_lines(_, _, _)
\* the for loop over lines, with current_section and the dict so far
parse_lines(lines, current_section, dict) ==
    IF lines = <<>> THEN dict
    ELSE LET line == Head(lines)
             section == first_match(line, current_section)
         IN  parse_lines(Tail(lines), section,
                         IF section # None /\ strip_nonempty(line)
                         THEN [dict EXCEPT ![section] = @ \o line \o <<"\n">>]
                         ELSE dict)

\* _parse_analysis_sections(text)
_parse_analysis_sections(txt) ==
    LET dict == parse_lines(split(txt), None,
                            [s \in FourSections |-> <<>>])
    IN  IF \A s \in FourSections : dict[s] = <<>>
        THEN [dict EXCEPT !.market_analysis = txt]
        ELSE dict

\* the lines a response is made of: empty, blank, body, body ending on a
\* figure such as 21.5, a header of each section, a line naming two sections
Letters == <<"a", "b", "c", "d", "e", "f">>
LineKinds(i) ==
    {<<>>, <<" ">>, <<Letters[i]>>, <<Letters[i], "1.">>,
     <<"1.", Letters[i]>>, <<" ", "2.", Letters[i]>>, <<"3.">>,
     <<"4.", Letters[i]>>, <<"2.", " ", "1.">>}

RECURSIVE join(_)
\* '\n'.join(lines)
join(lines) ==
    IF Len(lines) = 1 THEN Head(lines)
    ELSE Head(lines) \o <<"\n">> \o join(Tail(lines))

RECURSIVE Texts(_)
\* the responses of n lines
Texts(n) ==
    IF n = 1 THEN {<<l>> : l \in LineKinds(1)}
    ELSE {Append(t, l) : t \in Texts(n - 1), l \in LineKinds(n)}

ParserInit ==
    /\ AppInit
    /\ model = "gemini"
    /\ now = 0
    /\ summaries = <<>>
    /\ db = <<>>
    /\ records = <<>>
    /\ analysis = NotAnalyzed
    /\ text \in {join(t) : t \in UNION {Texts(n) : n \in 1..MaxLines}}
    /\ sections = NotParsed

\* analyze_with_gemini: sections = self._parse_analysis_sections(response.text)
parse_response ==
    /\ ~sections.parsed
    /\ sections' = [parsed |-> TRUE, dict |-> _parse_analysis_sections(text)]
    /\ UNCHANGED <<life, pc, running, model, now, summaries, text, db,
                   records, analysis, frame, store, sched, reqs, faults>>

ParserNext == parse_response

ParserSpec == ParserInit /\ [][ParserNext]_vars

\* ------------------------------------------------------------ properties
IsPrefix(s, u) == Len(s) <= Len(u) /\ \A i \in 1..Len(s) : s[i] = u[i]

\* task t is inside execute_pipeline
InCycle(t) == pc[t] \in CycleStages

\* the call of task t is over: result is what the caller receives
AtReturn(t) == pc[t] = "return"

\* the collection stage of t's cycle succeeded / failed
Collected(t) == "Observation" \in persisted[t]
CollectionFailed(t) == AtReturn(t) /\ ~Collected(t)

\* t's cycle ran stage event e
Ran(t, e) == e \in Range(trace[t])

\* C1: at most one cycle (call of execute_pipeline) is in progress at any
\* time, whoever started it: the scheduling loop, the initial collection of
\* lifespan, or an on-demand trigger.
C1_AtMostOneCycle == Cardinality({t \in Tasks : InCycle(t)}) <= 1

\* t's cycle has inserted its Observation and has stages left to run
MidWrite(t) == Collected(t) /\ pc[t] \in {"analyze", "summarize"}
\* this step has task u insert a record / read the analysis window
Inserts(u) == persisted'[u] # persisted[u] /\ persisted'[u] # {}
ReadsWindow(u) == pc[u] = "analyze" /\ pc'[u] # "analyze"

\* C2: store accesses of concurrent cycles never interleave: between a
\* cycle's insert of its Observation and the end of its writes no other cycle
\* reads the analysis window or inserts a record, and the tables change only
\* by that cycle's inserts.
C2_NoInterleavedStoreAccess ==
    [][\A t \in Tasks : MidWrite(t) =>
          /\ \A u \in Tasks \ {t} : ~Inserts(u) /\ ~ReadsWindow(u)
          /\ store' # store => Inserts(t)]_vars

\* C2 witness: a cycle is between its Observation insert and its last write
\* while another cycle is in progress, suspended in its price fetch.
C2_Witness ==
    \E t \in Tasks, u \in Tasks :
        t # u /\ MidWrite(t) /\ pc[t] = "summarize" /\ pc[u] \in FetchStages

\* C3: the returned result has success = true if and only if the collection
\* stage succeeded; no failure of analysis or summarization makes it false.
C3_SuccessIffCollected ==
    \A t \in Tasks : AtReturn(t) => (result[t].success <=> Collected(t))

\* C4: when the analysis stage fails after a successful collection, the
\* cycle records the error and still runs the summarization stage.
C4_AnalysisFailureStillSummarizes ==
    \A t \in Tasks :
        AtReturn(t) /\ Ran(t, "ANALYZING") /\ ~Ran(t, "ANALYZED")
            => result[t].errors # <<>> /\ Ran(t, "SUMMARIZING")

\* the first half of C5: a failed collection ends the cycle at once, with
\* success = false, an error, no later stage and no record
C5_CollectionFailureStops ==
    \A t \in Tasks :
        CollectionFailed(t) =>
            /\ ~result[t].success
            /\ result[t].errors = <<ErrCollect>>
            /\ result[t].data = {}
            /\ trace[t] = <<"COLLECTING">>
            /\ persisted[t] = {}

\* C5: a failed collection ends the cycle at once (success = false, an error
\* recorded, no analysis, no summarization, no StatisticsSnapshot or
\* NarrativeSummary persisted), and a cycle ends without summarizing only
\* in this case.
C5_AbortOnlyOnCollectionFailure ==
    /\ C5_CollectionFailureStops
    /\ \A t \in Tasks :
           AtReturn(t) /\ ~Ran(t, "SUMMARIZING") => CollectionFailed(t)

\* C6: every cycle whose collection succeeded produces a NarrativeSummary
\* with all four sections, the local fallback one whenever the summarizer is
\* unconfigured or raises.
C6_CollectedCycleHasNarrative ==
    \A t \in Tasks :
        AtReturn(t) /\ Collected(t) =>
            /\ ai_result[t].kind \in {"fallback", "parsed"}
            /\ ai_result[t].sections = FourSections
            /\ model = None => ai_result[t].kind = "fallback"

\* C7: stopping the scheduling loop never aborts a cycle already in
\* progress: a loop cycle that was collecting when the stop arrived is not
\* cut off, it runs to its end.
C7_StopNeverAbortsCycle ==
    stopped_at \in CycleStages => pc["loop"] # "cancelled"

\* C8: a scheduling loop stopped during its inter-cycle wait starts no
\* further cycle, not even a partial one: it never leaves the wait for a
\* stage of a cycle.
C8_StopMidWaitStartsNoCycle ==
    stopped_at = "sleeping" =>
        /\ pc["loop"] \in {"sleeping", "cancelled", "done"}
        /\ trace["loop"] = <<>>

\* C8 witness: the loop had run a cycle, was stopped in its wait and is gone.
C8_Witness ==
    stopped_at = "sleeping" /\ loop_cycles >= 1 /\ pc["loop"] = "cancelled"

\* this step ends a wait of the loop (other than by cancellation)
WaitEnds ==
    /\ pc["loop"] = "sleeping"
    /\ pc'["loop"] # "cancelled"
    /\ pc'["loop"] # "sleeping" \/ slept' < slept
\* this step ends an iteration of the loop (other than by cancellation)
IterationEnds ==
    /\ pc["loop"] \in CycleStages
    /\ pc'["loop"] \notin CycleStages
    /\ pc'["loop"] # "cancelled"

\* C9: while the loop is not stopped, every iteration, whatever its outcome,
\* is followed by a wait of exactly one refresh interval and then by the next
\* iteration: a failure neither halts the loop nor changes the wait, and two
\* consecutive loop cycles are separated by one full wait.
C9_FullWaitBetweenLoopCycles ==
    [][/\ IterationEnds => pc'["loop"] = "sleeping" /\ slept' = 0
       /\ WaitEnds => slept = RefreshTicks
       /\ WaitEnds /\ is_running => pc'["loop"] \in {"fetch_intl", "sleeping"}
       /\ loop_cycles' # loop_cycles /\ loop_cycles > 0 =>
              pc["loop"] = "sleeping" /\ slept = RefreshTicks]_vars

\* C9 witness: the loop has begun its second cycle, after a first iteration
\* that failed and the wait that followed it.
C9_Witness ==
    /\ loop_cycles = 2
    /\ pc["loop"] = "fetch_intl"
    /\ last_outcome \in {"failed", "exception"}

StageOrder ==
    <<"COLLECTING", "OBS_PERSISTED", "ANALYZING", "ANALYZED", "SUMMARIZING">>

\* C10: within one cycle the stages run in the order COLLECTING, ANALYZING,
\* SUMMARIZING, none twice: the window is read only after the cycle's
\* Observation is persisted, the narrative requested only after the analysis
\* stage has finished.
C10_StageOrder ==
    \A t \in Tasks :
        /\ IsPrefix(trace[t], StageOrder)
        /\ Ran(t, "ANALYZING") => Collected(t)
        /\ Ran(t, "SUMMARIZING") => analysis_result[t].kind = "dict"

\* C10 witness: a cycle has run all three stages.
C10_Witness ==
    \E t \in Tasks : AtReturn(t) /\ trace[t] = StageOrder

\* the handler of POST /collect is handed the result of the cycle it ran
PostAnswered == AtReturn("request") /\ endpoint = "post"

\* C11: when POST /collect runs a cycle whose collection fails, the error
\* response carries that cycle's stage error list; the generic error response
\* without the list is not what such a cycle is answered with.
C11_ErrorResponseCarriesStageErrors ==
    PostAnswered /\ ~Collected("request") =>
        /\ response.kind = Raise
        /\ "errors" \in response.keys
        /\ response.errors = result["request"].errors

\* what does hold of POST /collect: every failed cycle, whatever failed, is
\* answered with the same status 500 detail {status, message}
C11_FailureAnsweredGenerically ==
    PostAnswered /\ ~result["request"].success =>
        response = Answer(Raise, 500, {"status", "message"}, <<>>)

\* ---------------------------------------------- properties of the analyzer
\* the metals analyze_trend and detect_anomalies look at
TrendMetals == {"gold", "silver"}

\* a metal's prices in the window, and its keys in the trend dict
Column(rs, m) ==
    CASE m = "gold" -> gold_prices(rs)
      [] m = "silver" -> silver_prices(rs)
      [] m = "platinum" -> platinum_prices(rs)
TrendKey(m) ==
    CASE m = "gold" -> "gold_trend"
      [] m = "silver" -> "silver_trend"
      [] m = "platinum" -> "platinum_trend"
ChangeKey(m) ==
    CASE m = "gold" -> "gold_change_percent"
      [] m = "silver" -> "silver_change_percent"
      [] m = "platinum" -> "platinum_change_percent"

\* sums and sizes of the halves [0, len//2) and [len//2, len) of a column
FirstSum(xs) == SumSeq(Slice(xs, 1, Len(xs) \div 2))
SecondSum(xs) == SumSeq(xs) - FirstSum(xs)
FirstLen(xs) == Len(xs) \div 2
SecondLen(xs) == Len(xs) - Len(xs) \div 2

\* the analyzer has run on a window of at least 2 observations
Classified == analysis.called /\ Len(records) >= 2

\* C13: for every window of at least 2 observations in which the mean of a
\* metal's first half is exactly 0, the trend classifier returns direction
\* insufficient_data and change_percent 0 for that metal, and no infinite or
\* undefined value.
C13_ZeroFirstHalfIsInsufficient ==
    Classified =>
        \A m \in TrendMetals :
            FirstSum(Column(records, m)) = 0 =>
                /\ analysis.trend[TrendKey(m)] = "insufficient_data"
                /\ IsZero(analysis.trend[ChangeKey(m)])

\* what the classifier does on a zero first-half mean: it does not raise, the
\* reported change_percent is inf or nan, and the direction is rising for inf
\* and flat for nan
C13_ZeroFirstHalfGivesInfOrNan ==
    Classified =>
        \A m \in TrendMetals :
            FirstSum(Column(records, m)) = 0 =>
                LET up == SecondSum(Column(records, m)) > 0 IN
                /\ analysis.trend[ChangeKey(m)] = IF up THEN PosInf ELSE NaN
                /\ analysis.trend[TrendKey(m)] = IF up THEN "rising" ELSE "flat"

\* C14: for every window with fewer than 2 observations the trend classifier
\* returns, for every metal, direction insufficient_data together with
\* change_percent 0.
C14_ShortWindowInsufficientAndZero ==
    analysis.called /\ Len(records) < 2 =>
        \A m \in Metals :
            /\ TrendKey(m) \in DOMAIN analysis.trend
            /\ analysis.trend[TrendKey(m)] = "insufficient_data"
            /\ ChangeKey(m) \in DOMAIN analysis.trend
            /\ IsZero(analysis.trend[ChangeKey(m)])

\* what the classifier returns for a short window: insufficient_data for gold
\* and for silver and nothing else; create_analysis_prompt reads the missing
\* change_percent as 0
C14_ShortWindowGoldSilverOnly ==
    analysis.called /\ Len(records) < 2 =>
        /\ DOMAIN analysis.trend = {"gold_trend", "silver_trend"}
        /\ \A m \in TrendMetals :
               /\ analysis.trend[TrendKey(m)] = "insufficient_data"
               /\ IsZero(Get(analysis.trend, ChangeKey(m), Fin(0, 1)))

\* the direction that goes with a reported change_percent
DirectionOf(change_percent) ==
    IF Gt(change_percent, TrendThreshold) THEN "rising"
    ELSE IF Lt(change_percent, -TrendThreshold) THEN "falling"
    ELSE "flat"

\* C15: for every window of at least 2 observations with non-zero first-half
\* mean, a metal's direction agrees with the change_percent reported for it:
\* rising iff that is > 2, falling iff it is < -2, flat otherwise.
C15_DirectionAgreesWithReported ==
    Classified =>
        \A m \in TrendMetals :
            FirstSum(Column(records, m)) # 0 =>
                analysis.trend[TrendKey(m)] =
                    DirectionOf(analysis.trend[ChangeKey(m)])

\* what holds instead: the direction is decided by the change before it is
\* rounded, (second mean - first mean) / first mean * 100 of the metal's own
\* halves, and the reported value is that change rounded to 2 decimals
C15_DirectionFromUnroundedChange ==
    Classified =>
        \A m \in TrendMetals :
            LET xs == Column(records, m)
                num == 100 * (SecondSum(xs) * FirstLen(xs)
                              - FirstSum(xs) * SecondLen(xs))
                den == FirstSum(xs) * SecondLen(xs)
            IN  FirstSum(xs) > 0 =>
                    /\ analysis.trend[TrendKey(m)] = DirectionOf(Fin(num, den))
                    /\ analysis.trend[ChangeKey(m)] =
                           Fin(RoundDiv(100 * num, den), 100)

\* C16: for an empty window the statistics engine returns a snapshot with
\* avg = max = min = std = median = 0 and data_points = 0, and the analysis
\* stage given that snapshot, its persistence step included, ends without
\* raising.
C16_EmptyWindowZeroStatistics ==
    analysis.called /\ records = <<>> =>
        /\ {"gold", "silver"} \subseteq DOMAIN analysis.statistics
        /\ \A m \in Metals \cap DOMAIN analysis.statistics :
               analysis.statistics[m] = ZeroStats
        /\ analysis.statistics.data_points = 0
        /\ analysis.trend.gold_trend = "insufficient_data"
        /\ analysis.anomalies = <<>>
        /\ analysis.raised = None

\* C16 witness: the analyzer has run on the empty window, and its
\* persistence step met the KeyError it catches.
C16_Witness ==
    /\ analysis.called
    /\ records = <<>>
    /\ analysis.save_except = "KeyError"
    /\ ~analysis.saved

\* C17: every snapshot the statistics engine returns, for every window
\* including the empty one, has a block for each of gold, silver and
\* platinum; a metal with no price in the window gets an all-zero block.
C17_EveryMetalHasBlock ==
    analysis.called =>
        /\ Metals \subseteq DOMAIN analysis.statistics
        /\ \A m \in Metals :
               Column(records, m) = <<>> => analysis.statistics[m] = ZeroStats

\* what holds: the snapshot of a non-empty window has the three blocks, the
\* platinum one all-zero when no observation carries a platinum price; the
\* snapshot of the empty window has no platinum block and is not stored
C17_NonEmptyWindowHasEveryBlock ==
    analysis.called =>
        IF records # <<>>
        THEN /\ Metals \subseteq DOMAIN analysis.statistics
             /\ platinum_prices(records) = <<>> =>
                    analysis.statistics.platinum = ZeroStats
        ELSE /\ Metals \cap DOMAIN analysis.statistics = {"gold", "silver"}
             /\ ~analysis.saved

\* the detector has run on a window long enough for it
Scanned == analysis.called /\ Len(records) >= MinAnomalyWindow

\* the records the detector emitted for metal m
Flagged(m) == {r \in Range(analysis.anomalies) : r.type = m}

\* n times x's distance from the mean of xs, squared, and the sum of these
\* over xs: (x - mean)^2 = SqDev / n^2 and std^2 = SumSqDev / n^3
SqDev(xs, x) == (Len(xs) * x - SumSeq(xs)) * (Len(xs) * x - SumSeq(xs))
SumSqDev(xs) == SumSeq([i \in 1..Len(xs) |-> SqDev(xs, xs[i])])

\* |x - mean| > 3 * std over the window xs
Outlier(xs, x) == Len(xs) * SqDev(xs, x) > 9 * SumSqDev(xs)

\* observation i of the window carries a price of metal m
Priced(m, i) == m \in TrendMetals \/ records[i].platinum_price # <<>>
PriceOf(m, i) ==
    CASE m = "gold" -> records[i].gold_price
      [] m = "silver" -> records[i].silver_price
      [] m = "platinum" -> Head(records[i].platinum_price)

\* the detector treats metal m as the claim says: it flags observation i if
\* and only if |price - mean| > 3 * std over the window, once, with the price
\* and a deviation of |price - mean| / std of that window
FlaggedIffOutlier(m) ==
    \A i \in 1..Len(records) :
        Priced(m, i) =>
            LET xs == Column(records, m)
                hits == {r \in Flagged(m) : r.at = i}
            IN  IF Outlier(xs, PriceOf(m, i))
                THEN /\ Cardinality(hits) = 1
                     /\ \A r \in hits :
                            /\ r.price = PriceOf(m, i)
                            /\ r.deviation =
                                   Fin(SqDev(xs, PriceOf(m, i)),
                                       SumSqDev(xs) \div Len(xs))
                ELSE hits = {}

\* C18: for every window of at least 10 observations and for each metal, the
\* anomaly detector flags an observation if and only if
\* |price - mean| > 3 * std, mean and std being the population mean and
\* standard deviation of that metal over the same full window, and the
\* record's deviation is |price - mean| / std of that window.
C18_FlaggedIffBeyondThreeStd ==
    Scanned => \A m \in Metals : FlaggedIffOutlier(m)

\* what holds: the detector does so for gold and for silver, in the order of
\* the window, and emits nothing else
C18_GoldSilverFlaggedIffBeyond ==
    Scanned =>
        /\ \A m \in TrendMetals : FlaggedIffOutlier(m)
        /\ \A r \in Range(analysis.anomalies) : r.type \in TrendMetals
        /\ \A i, j \in 1..Len(analysis.anomalies) :
               i < j => analysis.anomalies[i].at <= analysis.anomalies[j].at

\* below 10 observations the detector returns the empty list
C18_ShortWindowNoAnomalies ==
    analysis.called /\ Len(records) < MinAnomalyWindow =>
        analysis.anomalies = <<>>

\* xs has exactly 10 prices, nine of them equal and the one at i higher
NineEqualOneHigher(xs, i) ==
    /\ Len(xs) = 10
    /\ i \in 1..10
    /\ \A j, k \in (1..10) \ {i} : xs[j] = xs[k]
    /\ \A j \in (1..10) \ {i} : xs[i] > xs[j]

AllEqual(xs) == \A i, j \in 1..Len(xs) : xs[i] = xs[j]

\* C20: for every window of at least 10 observations in which a metal's
\* prices are all equal, the detector emits no record for that metal, and no
\* record it emits comes from a division by zero.
C20_ConstantSeriesNotFlagged ==
    Scanned =>
        /\ \A m \in Metals : AllEqual(Column(records, m)) => Flagged(m) = {}
        /\ \A r \in Range(analysis.anomalies) : IsFinite(r.deviation)

\* C20 witness: the detector has run on a window of at least 10 observations
\* whose gold prices are all equal, and has flagged a silver price of it.
C20_Witness ==
    /\ Scanned
    /\ AllEqual(gold_prices(records))
    /\ Flagged("silver") # {}

\* record a of the detector's list comes before record b in the order of the
\* window, or with it and in the order gold, silver
InDetectorOrder(a, b) ==
    \/ a.at < b.at
    \/ a.at = b.at /\ a.type = "gold" /\ b.type = "silver"

\* C21: the list the anomaly detector returns is in the window's observation
\* order (ascending timestamp), and two records for the same observation
\* appear gold before silver.
C21_AnomaliesInWindowOrder ==
    analysis.called =>
        \A i, j \in 1..Len(analysis.anomalies) :
            i < j => InDetectorOrder(analysis.anomalies[i],
                                     analysis.anomalies[j])

\* C21 witness: the detector has returned a gold and a silver record for one
\* observation.
C21_Witness ==
    /\ analysis.called
    /\ \E i, j \in 1..Len(analysis.anomalies) :
           /\ i < j
           /\ analysis.anomalies[i].at = analysis.anomalies[j].at

\* the detector has also returned records for two different observations
C21_WitnessTwoObservations ==
    /\ analysis.called
    /\ \E i, j \in 1..Len(analysis.anomalies) :
           analysis.anomalies[i].at < analysis.anomalies[j].at

\* what DataAnalyzerAgent.run returns to its caller
Results(a) == <<a.statistics, a.trend, a.anomalies>>

\* the rows of a table are not in the order of their timestamps
OutOfOrder(rows) ==
    \E i, j \in 1..Len(rows) : i < j /\ rows[i].timestamp > rows[j].timestamp

\* C22: statistics, trend and anomalies depend only on the set of
\* observations (distinct timestamps), not on the order of their insertion:
\* for any other insertion order of the same rows the window is the same
\* ascending-timestamp sequence and the results are identical.
C22_InsertionOrderIrrelevant ==
    analysis.called =>
        /\ \A i, j \in 1..Len(records) :
               i < j => records[i].timestamp < records[j].timestamp
        /\ \A p \in Orders(Len(db)) :
               LET other == get_monthly_data(Permuted(db, p))
               IN  /\ other = records
                   /\ Results(DataAnalyzerAgent_run(other, TRUE))
                          = Results(analysis)

\* C22 witness: the analyzer has run on a table whose rows were not inserted
\* in timestamp order, one of them older than a month, and has found an
\* anomaly in its window.
C22_Witness ==
    /\ analysis.called
    /\ OutOfOrder(db)
    /\ Len(records) < Len(db)
    /\ analysis.anomalies # <<>>

\* C23: the store is append-only under every sequence of cycles and
\* triggers: a step leaves every persisted Observation, StatisticsSnapshot
\* and NarrativeSummary row where and as it was; each table only grows.
C23_StoreAppendOnly ==
    [][/\ IsPrefix(price_records, price_records')
       /\ IsPrefix(statistics_records, statistics_records')
       /\ IsPrefix(ai_analysis_records, ai_analysis_records')]_vars

\* C23 witness: a second cycle has inserted into each table after the rows
\* of an earlier one.
C23_Witness ==
    /\ Len(price_records) >= 2
    /\ Len(statistics_records) >= 2
    /\ Len(ai_analysis_records) >= 2

\* C24: across cycles, overlapping ones included, the timestamps of the
\* persisted Observations are non-decreasing in insertion order: no cycle
\* persists an Observation stamped earlier than one already persisted.
C24_TimestampsInInsertionOrder ==
    \A i, j \in 1..Len(price_records) :
        i < j => price_records[i].record.timestamp
                     <= price_records[j].record.timestamp

\* two cycles are between their first fetch and their insert at once
Overlapping ==
    \E t, u \in Tasks :
        /\ t # u
        /\ pc[t] \in {"fetch_intl", "fetch_bot", "save"}
        /\ pc[u] \in {"fetch_intl", "fetch_bot", "save"}

\* C24 witness: an Observation stamped later than the one before it has been
\* persisted while another cycle was collecting.
C24_Witness ==
    /\ Overlapping
    /\ \E i \in 1..Len(price_records) :
           /\ i > 1
           /\ price_records[i - 1].record.timestamp
                  < price_records[i].record.timestamp

IsHeader(l) == \E s \in FourSections : has_key(l, keywords[s])

\* the section a header line is a header of: the first, in the order of the
\* dict, that it names
HeaderSection(l) ==
    LET named == {k \in 1..Len(SectionOrder) :
                     has_key(l, keywords[SectionOrder[k]])}
    IN  SectionOrder[CHOOSE k \in named : \A j \in named : k <= j]

\* the index of the most recent header line at line i of lines
RecentHeader(lines, i) ==
    CHOOSE j \in 1..i :
        IsHeader(lines[j]) /\ \A k \in (j + 1)..i : ~IsHeader(lines[k])

\* line i of lines belongs to section s: it is not blank, a header line is
\* at or before it, and the most recent one is a header of s
BelongsTo(lines, i, s) ==
    /\ strip_nonempty(lines[i])
    /\ \E j \in 1..i : IsHeader(lines[j])
    /\ HeaderSection(lines[RecentHeader(lines, i)]) = s

RECURSIVE Gathered(_, _, _)
\* the lines of section s among the first n, each with its line end, in the
\* order of the text
Gathered(lines, n, s) ==
    IF n = 0 THEN <<>>
    ELSE Gathered(lines, n - 1, s)
         \o (IF BelongsTo(lines, n, s) THEN lines[n] \o <<"\n">> ELSE <<>>)

\* C26: when no line of the response holds a recognizable section header,
\* the parser assigns the entire response to market_analysis and leaves the
\* other three sections empty; when a header line is present, every
\* non-blank line from the first header line on is appended to exactly one
\* section, that of the most recent header line, in the original order.
C26_ParserSections ==
    sections.parsed =>
        LET lines == split(text)
        IN  /\ DOMAIN sections.dict = FourSections
            /\ IF \A i \in 1..Len(lines) : ~IsHeader(lines[i])
               THEN /\ sections.dict.market_analysis = text
                    /\ \A s \in FourSections \ {"market_analysis"} :
                           sections.dict[s] = <<>>
               ELSE \A s \in FourSections :
                        sections.dict[s] = Gathered(lines, Len(lines), s)

\* C26 witness: a response has been parsed that starts with a body line
\* before its first header and whose lines went to two sections.
C26_Witness ==
    /\ sections.parsed
    /\ ~IsHeader(split(text)[1])
    /\ strip_nonempty(split(text)[1])
    /\ \E s, u \in FourSections :
           s # u /\ sections.dict[s] # <<>> /\ sections.dict[u] # <<>>

\* a response without any header line, of more than one line, has been
\* parsed as well
C26_WitnessNoHeader ==
    /\ sections.parsed
    /\ Len(split(text)) > 1
    /\ \A i \in 1..Len(split(text)) : ~IsHeader(split(text)[i])
    /\ sections.dict.market_analysis # <<>>

\* C27: every result returned by execute_pipeline satisfies: success = false
\* implies the error list is not empty; success = true implies the data
\* holds the collected prices; and the data holds an analysis or a narrative
\* only if it also holds the collected prices.
C27_ResultInvariants ==
    \A t \in Tasks :
        AtReturn(t) =>
            /\ ~result[t].success => result[t].errors # <<>>
            /\ result[t].success => "prices" \in result[t].data
            /\ result[t].data \cap {"analysis", "ai_analysis"} # {} =>
                   "prices" \in result[t].data

\* C27 witness: a cycle has returned a failure whose data holds the
\* collected prices.
C27_Witness ==
    \E t \in Tasks :
        /\ AtReturn(t)
        /\ ~result[t].success
        /\ "prices" \in result[t].data

\* a cycle has also returned a success whose data holds a narrative
C27_WitnessSuccess ==
    \E t \in Tasks :
        /\ AtReturn(t)
        /\ result[t].success
        /\ "ai_analysis" \in result[t].data

\* the record whose insert stands behind each key of result["data"]
RecordOf ==
    [prices |-> "Observation", analysis |-> "StatisticsSnapshot",
     ai_analysis |-> "NarrativeSummary"]

\* C28: a stage output is reported in a cycle's result (the keys of data:
\* prices, analysis, ai_analysis) only if the corresponding record was
\* persisted in that cycle; a failed insert of the snapshot or the narrative
\* shows in the result, by the output being absent or by an entry in the
\* error list.
C28_OutputsOnlyIfPersisted ==
    \A t \in Tasks :
        AtReturn(t) =>
            /\ \A key \in result[t].data : RecordOf[key] \in persisted[t]
            /\ \A key \in {"analysis", "ai_analysis"} :
                   RecordOf[key] \notin persisted[t] =>
                       key \notin result[t].data \/ result[t].errors # <<>>

\* what holds: the prices are reported if and only if the Observation was
\* persisted in the cycle
C28_PricesIffObservationPersisted ==
    \A t \in Tasks :
        AtReturn(t) =>
            ("prices" \in result[t].data <=> "Observation" \in persisted[t])

\* a cycle reports success, no error and all three outputs, and has
\* persisted neither the snapshot nor the narrative
C28_SilentlyUnpersisted ==
    \E t \in Tasks :
        /\ AtReturn(t)
        /\ result[t].success
        /\ result[t].errors = <<>>
        /\ result[t].data = {"prices", "analysis", "ai_analysis"}
        /\ persisted[t] = {"Observation"}

\* the stop has been issued: lifespan is past stop_scheduled_collection()
Stopped == app \in {"stopping", "stopped"}

\* C29: once stop_scheduled_collection has been called, is_running stays
\* false and the scheduling loop starts no further cycle, whatever the
\* position of the loop task at the stop, a task created and not yet stepped
\* included: no step ends in a stopped application with is_running true,
\* and no step of a stopped application begins a loop cycle.
C29_StopIsFinal ==
    [][/\ Stopped' => ~is_running'
       /\ Stopped =>
              /\ loop_cycles' = loop_cycles
              /\ pc'["loop"] \in CycleStages => pc["loop"] \in CycleStages]_vars

\* C29 witness: the stop came after the loop task was created and before
\* its first step, and the task is gone without having run.
C29_Witness ==
    /\ stopped_at = "created"
    /\ pc["loop"] = "cancelled"
    /\ ~is_running
    /\ loop_cycles = 0

\* C29, second witness: the stop came while the loop, running, was in a
\* cycle or in its wait, and the application has ended.
C29_WitnessStarted ==
    /\ stopped_at \in CycleStages \cup {"sleeping"}
    /\ app = "stopped"
    /\ ~is_running
    /\ loop_cycles >= 1

====
